---- MODULE Spec2Model ----
(***************************************************************************)
(* The feedback-loop controller of app/services/agent_loop.py together     *)
(* with its collaborators: orchestrator.process_chat (plan generation),    *)
(* junior_dev.implement_component (one worker per planned file) and        *)
(* _run_build_check (build verification).                                  *)
(*                                                                         *)
(* Conventions of the model.                                               *)
(*  - A Python dict is a TLA+ function whose DOMAIN is its key set; a      *)
(*    dict used as a record (a result, a feedback item) is a TLA+ record.  *)
(*  - A filename is the tuple of the names its comma-separated text        *)
(*    lists: "A.tsx" is <<"A.tsx">>, and ",".join(names) is the            *)
(*    concatenation of the tuples, so ",".join([x]) = x as in Python.      *)
(*  - Texts produced by the language model or the build toolchain are      *)
(*    opaque tokens.                                                       *)
(*  - The dict returned by run_orchestration_with_feedback refers to the   *)
(*    loop's own objects: result holds its scalar fields, and its          *)
(*    "iterations", "implementations", "file_plans", "junior_sessions"     *)
(*    and "orchestrator_session" are the variables of the same name as     *)
(*    they stand when pc = "done".                                         *)
(***************************************************************************)
EXTENDS Integers, Sequences, FiniteSets, TLC

\* ---------------------------------------------------------------- bounds

\* max_rounds is drawn from 1..MaxRounds
MaxRounds == 2
\* a plan lists at most MaxFiles files
MaxFiles == 2

\* a text given to clean_code_output has at most MaxText tokens
MaxText == 6

\* ---------------------------------------------------------------- inputs

Filenames == {<<"A.tsx">>, <<"B.tsx">>}
Contents == {"v1", "v2"}
\* a feedback message, as the language model writes it: not trimmed
Messages == {" need info "}

FilePlan(f) == [path |-> "src", filename |-> f]

\* OrchestrationPlan.files: any list of FilePlan (the schema asks nothing
\* more of it: it may be empty and may repeat a filename)
PlanFiles == UNION {[1..n -> {FilePlan(f) : f \in Filenames}] : n \in 0..MaxFiles}

NoSession == <<"none", 0>>
KnownSession == <<"caller", 1>>
StaleSession == <<"caller", 2>>

\* what client.chat.completions.create does for the orchestrator
OrchReplies ==
    {[kind |-> k] : k \in {"api_error", "no_choices", "empty", "text", "invalid_plan"}}
    \cup {[kind |-> "plan", files |-> fs] : fs \in PlanFiles}

\* what a worker task meets: the task itself raising, or what
\* client.chat.completions.create does for the junior developer
JuniorReplies ==
    {[kind |-> k] : k \in {"task_raise", "api_error", "empty"}}
    \cup {[kind |-> "feedback", message |-> m, blocking |-> b] : m \in Messages, b \in BOOLEAN}
    \cup {[kind |-> "code", body |-> c] : c \in Contents}

\* JSON objects a worker may answer with, each with the text that spells it
JsonObjects ==
    {[text |-> "{type: feedback, message, blocking: true}",
      payload |-> [type |-> "feedback", message |-> "need info", blocking |-> TRUE]],
     [text |-> "{type: feedback, message}",
      payload |-> [type |-> "feedback", message |-> "need info"]],
     [text |-> "{type: feedback}",
      payload |-> [type |-> "feedback"]],
     [text |-> "{type: implementation, code}",
      payload |-> [type |-> "implementation", code |-> "v1"]],
     [text |-> "{type: note, message}",
      payload |-> [type |-> "note", message |-> "need info"]],
     [text |-> "{message, blocking: true}",
      payload |-> [message |-> "need info", blocking |-> TRUE]]}

\* every reply text implement_component is checked against on its own: code,
\* a JSON object, or JSON that is no object, each bare or inside a code fence
AllJuniorReplies ==
    JuniorReplies
    \cup {[kind |-> "code", body |-> c, fenced |-> b] : c \in Contents, b \in BOOLEAN}
    \cup {[kind |-> "json", text |-> o.text, payload |-> o.payload, fenced |-> b] :
            o \in JsonObjects, b \in BOOLEAN}
    \cup {[kind |-> "json_array", text |-> "[1, 2]", fenced |-> b] : b \in BOOLEAN}

\* A text as clean_code_output sees it, token by token: the fence marker,
\* a language tag, a newline, a blank, a word of code
Fence == "FENCE"
Newline == "NL"
Blank == "SP"
Tokens == {Fence, "tsx", Newline, Blank, "x"}

Texts == UNION {[1..n -> Tokens] : n \in 0..MaxText}

\* The environment of one _run_build_check call: whether shutil.which finds
\* npm, whether the template directory exists, and the exit codes of
\* `cp -R`, `npm install` and `npm run build` (should they be run)
BuildEnv(npm, template, cp, install, build) ==
    [npm |-> npm, template |-> template, cp |-> cp, install |-> install, build |-> build]

AllBuildEnvs ==
    {BuildEnv(n, t, c, i, b) : n \in BOOLEAN, t \in BOOLEAN,
                               c \in {0, 1}, i \in {0, 1}, b \in {0, 1}}

\* the environments the loop is run in: no npm, no template, and each of
\* the three external steps failing first, or none
BuildEnvs ==
    {BuildEnv(FALSE, TRUE, 0, 0, 0), BuildEnv(TRUE, FALSE, 0, 0, 0),
     BuildEnv(TRUE, TRUE, 1, 0, 0), BuildEnv(TRUE, TRUE, 0, 1, 0),
     BuildEnv(TRUE, TRUE, 0, 0, 1), BuildEnv(TRUE, TRUE, 0, 0, 0)}

\* ---------------------------------------------------------------- state

VARIABLES
    pc,                   \* position in run_orchestration_with_feedback
    max_rounds,           \* argument
    orchestrator_client,  \* orchestrator.client is not None
    junior_client,        \* junior_dev.client is not None
    uuid_count,           \* number of uuid4() values drawn so far
    chat_sessions,        \* orchestrator.chat_sessions
    junior_sessions,      \* junior_dev.junior_sessions
    orch_session,
    round_index,
    current_instructions,
    plan,                 \* plan.files of the current round
    tasks,                \* the tasks of _run_juniors_parallel, in list order
    file_plan_map,
    implementation_map,
    junior_session_map,
    iterations,
    feedback_items,
    blocking,
    result,               \* the returned dict (or the exception raised)
    plan_calls,           \* history: each process_chat call, its arguments, reply and result
    worker_calls,         \* history: per round, number of tasks started
    build_calls,          \* history: each _run_build_check call, its round and verdict
    build_run,            \* history: the last _run_build_check call, its environment,
                          \* what it returned and the external steps it took
    worker_run,           \* history: an implement_component call made on its own,
                          \* its arguments, the reply it met and what it returned
    batch,                \* the locals of implement_multiple_components
    cleaning              \* a clean_code_output call: its argument and what it returned

vars == <<pc, max_rounds, orchestrator_client, junior_client, uuid_count,
          chat_sessions, junior_sessions, orch_session, round_index,
          current_instructions, plan, tasks, file_plan_map, implementation_map,
          junior_session_map, iterations, feedback_items, blocking, result,
          plan_calls, worker_calls, build_calls, build_run, worker_run, batch, cleaning>>

\* ---------------------------------------------------------------- helpers

\* dict.get(key, default)
Get(d, k, default) == IF k \in DOMAIN d THEN d[k] ELSE default

\* d[k] = v
Put(d, k, v) == [x \in DOMAIN d \cup {k} |-> IF x = k THEN v ELSE d[x]]

EmptyMap == [x \in {} |-> TRUE]

\* str(uuid.uuid4()): a value never drawn before
Uuid(n) == <<"uuid", n>>

Last(s) == s[Len(s)]
Front(s) == SubSeq(s, 1, Len(s) - 1)

Instructions == [base |-> "Build UI", round |-> 0, lines |-> <<>>]

\* ---------------------------------------------------------------- orchestrator.process_chat

OrchError(content, session_id) ==
    [type |-> "error", content |-> content, session_id |-> session_id]

\* process_chat answering a brace span that fails to parse or validate
\* with an error
process_chat_SpanFailureIsError(instructions, session_id, reply, sessions, client, n) ==
    IF ~client
    THEN [result |-> OrchError("API key is not set", session_id),
          sessions |-> sessions, uuid |-> n]
    ELSE
    LET minted == session_id = NoSession
        sid == IF minted THEN Uuid(n + 1) ELSE session_id
        s0 == IF minted THEN Put(sessions, sid, <<>>) ELSE sessions
        n1 == IF minted THEN n + 1 ELSE n
    IN  IF reply.kind = "api_error"
        THEN [result |-> OrchError("api error", sid), sessions |-> s0, uuid |-> n1]
        ELSE IF reply.kind = "no_choices"
        THEN [result |-> OrchError("No response received from OpenAI API", sid),
              sessions |-> s0, uuid |-> n1]
        ELSE IF reply.kind = "empty"
        THEN [result |-> OrchError("OpenAI API returned empty content", sid),
              sessions |-> s0, uuid |-> n1]
        ELSE IF sid \notin DOMAIN s0
        THEN [result |-> OrchError("KeyError", sid), sessions |-> s0, uuid |-> n1]
        ELSE
        LET s1 == Put(s0, sid, s0[sid] \o
                      <<[role |-> "user", parts |-> instructions],
                        [role |-> "model", parts |-> reply]>>)
        IN  IF reply.kind = "plan"
            THEN [result |-> [type |-> "plan", content |-> reply.files, session_id |-> sid],
                  sessions |-> s1, uuid |-> n1]
            ELSE IF reply.kind = "invalid_plan"
            THEN [result |-> OrchError("JSON Parse Error", sid), sessions |-> s1, uuid |-> n1]
            ELSE [result |-> [type |-> "question", content |-> reply.kind, session_id |-> sid],
                  sessions |-> s1, uuid |-> n1]

\* process_chat(instructions, session_id) when the capability answers with
\* reply: the returned dict, chat_sessions afterwards, and the uuid count
process_chat(instructions, session_id, reply, sessions, client, n) ==
    IF ~client
    THEN [result |-> OrchError("API key is not set", session_id),
          sessions |-> sessions, uuid |-> n]
    ELSE
    LET minted == session_id = NoSession
        sid == IF minted THEN Uuid(n + 1) ELSE session_id
        \* the session's history is created only for an id minted here
        s0 == IF minted THEN Put(sessions, sid, <<>>) ELSE sessions
        n1 == IF minted THEN n + 1 ELSE n
    IN  IF reply.kind = "api_error"
        THEN [result |-> OrchError("api error", sid), sessions |-> s0, uuid |-> n1]
        ELSE IF reply.kind = "no_choices"
        THEN [result |-> OrchError("No response received from OpenAI API", sid),
              sessions |-> s0, uuid |-> n1]
        ELSE IF reply.kind = "empty"
        THEN [result |-> OrchError("OpenAI API returned empty content", sid),
              sessions |-> s0, uuid |-> n1]
        ELSE IF sid \notin DOMAIN s0
        \* chat_sessions[session_id] raises KeyError, caught by `except Exception`
        THEN [result |-> OrchError("KeyError", sid), sessions |-> s0, uuid |-> n1]
        ELSE
        LET s1 == Put(s0, sid, s0[sid] \o
                      <<[role |-> "user", parts |-> instructions],
                        [role |-> "model", parts |-> reply]>>)
        IN  IF reply.kind = "plan"
            THEN [result |-> [type |-> "plan", content |-> reply.files, session_id |-> sid],
                  sessions |-> s1, uuid |-> n1]
            \* no brace span, or a span that fails to parse or validate
            ELSE [result |-> [type |-> "question", content |-> reply.kind, session_id |-> sid],
                  sessions |-> s1, uuid |-> n1]

\* ---------------------------------------------------------------- junior_dev.implement_component

JuniorError(content, session_id) ==
    [type |-> "error", content |-> content, session_id |-> session_id]

IsSpace(token) == token \in {Newline, Blank}

\* str.strip()
RECURSIVE StripLeft(_)
StripLeft(text) ==
    IF text # <<>> /\ IsSpace(Head(text)) THEN StripLeft(Tail(text)) ELSE text

RECURSIVE StripRight(_)
StripRight(text) ==
    IF text # <<>> /\ IsSpace(Last(text)) THEN StripRight(Front(text)) ELSE text

StripText(text) == StripRight(StripLeft(text))

\* code.find("\n"): the first index of a newline, 0 when there is none
FindNewline(text) ==
    LET at == {i \in 1..Len(text) : text[i] = Newline}
    IN  IF at = {} THEN 0 ELSE CHOOSE i \in at : \A j \in at : i <= j

\* lines 203-220 of clean_code_output, on a text given token by token
clean_code_output_text(code) ==
    LET stripped == StripText(code)
        opened == IF stripped # <<>> /\ Head(stripped) = Fence /\ FindNewline(stripped) # 0
                  THEN SubSeq(stripped, FindNewline(stripped) + 1, Len(stripped))
                  ELSE stripped
        \* code.endswith(fence): the last fence found by rfind is the last token
        closed == IF opened # <<>> /\ Last(opened) = Fence THEN Front(opened) ELSE opened
    IN  StripText(closed)

\* clean_code_output: the text without its enclosing fence lines
clean_code_output(reply) == IF reply.kind = "code" THEN reply.body ELSE reply.text

\* What _parse_feedback_or_code makes of the reply text: the JSON object
\* when the text is one carrying "type", the cleaned code otherwise
_parse_feedback_or_code(reply) ==
    IF reply.kind = "feedback"
    THEN [type |-> "feedback", message |-> reply.message, blocking |-> reply.blocking]
    ELSE IF reply.kind = "json" /\ "type" \in DOMAIN reply.payload
    THEN reply.payload
    ELSE [type |-> "implementation", code |-> clean_code_output(reply)]

\* line 340: the turn holding the implementation request
UserTurn(file_plan) == [role |-> "user", content |-> file_plan.filename]

\* line 341 recording the reply as one more user turn
AssistantTurn_AsUser(reply) == [role |-> "user", content |-> reply]

\* line 341: the turn holding the reply
AssistantTurn(reply) == [role |-> "assistant", content |-> reply]

\* implement_component(file_plan, global_style, session_id) when the
\* capability answers with reply: the returned dict, junior_sessions afterwards
implement_component(file_plan, session_id, reply, sessions, client, n) ==
    IF ~client
    THEN [result |-> JuniorError("API key is not set", session_id),
          sessions |-> sessions, uuid |-> n]
    ELSE
    LET minted == session_id = NoSession
        sid == IF minted THEN Uuid(n + 1) ELSE session_id
        n1 == IF minted THEN n + 1 ELSE n
        s0 == IF sid \notin DOMAIN sessions THEN Put(sessions, sid, <<>>) ELSE sessions
    IN  IF reply.kind = "api_error"
        THEN [result |-> JuniorError("Failed to implement component", sid),
              sessions |-> s0, uuid |-> n1]
        ELSE IF reply.kind = "empty"
        THEN [result |-> JuniorError("OpenAI API returned empty content", sid),
              sessions |-> s0, uuid |-> n1]
        ELSE
        LET parsed == _parse_feedback_or_code(reply)
            result_payload ==
                IF Get(parsed, "type", "") = "feedback"
                THEN [type |-> "feedback", filename |-> file_plan.filename,
                      message |-> Get(parsed, "message", ""),
                      blocking |-> Get(parsed, "blocking", FALSE),
                      session_id |-> sid]
                ELSE [type |-> "implementation", filename |-> file_plan.filename,
                      content |-> Get(parsed, "code", clean_code_output(reply)),
                      session_id |-> sid]
            s1 == Put(s0, sid, s0[sid] \o <<UserTurn(file_plan), AssistantTurn(reply)>>)
        IN  [result |-> result_payload, sessions |-> s1, uuid |-> n1]

\* ---------------------------------------------------------------- agent_loop helpers

\* the sort key of _summarize_feedback for an item with this filename:
\* its index in the plan (the last one when the plan repeats it), else 999
UnknownOrder == 999

filename_order(plan_files, filename) ==
    LET idx == {i \in 1..Len(plan_files) : plan_files[i].filename = filename}
    IN  IF idx = {} THEN UnknownOrder
        ELSE (CHOOSE i \in idx : \A j \in idx : j <= i) - 1

\* list.sort(key=...) is stable: insert each item after the items already
\* placed whose key is not larger
RECURSIVE SortedInsert(_, _, _)
SortedInsert(sorted, item, plan_files) ==
    IF sorted = <<>> THEN <<item>>
    ELSE IF filename_order(plan_files, Get(Last(sorted), "filename", <<>>))
            <= filename_order(plan_files, Get(item, "filename", <<>>))
         THEN Append(sorted, item)
         ELSE Append(SortedInsert(Front(sorted), item, plan_files),
                     Last(sorted))

RECURSIVE SortFeedback(_, _)
SortFeedback(items, plan_files) ==
    IF items = <<>> THEN <<>>
    ELSE SortedInsert(SortFeedback(Front(items), plan_files), Last(items), plan_files)

ErrorFeedback(err) ==
    [type |-> "feedback",
     filename |-> Get(err, "filename", <<"unknown">>),
     message |-> Get(err, "error", "Unknown error"),
     blocking |-> TRUE]

_summarize_feedback(impl_results, plan_files) ==
    LET IsFeedback(impl) == Get(impl, "type", "") = "feedback"
        promoted == SelectSeq(impl_results.implementations, IsFeedback)
        synthesized == [i \in 1..Len(impl_results.errors) |->
                            ErrorFeedback(impl_results.errors[i])]
    IN  SortFeedback(promoted \o synthesized, plan_files)

\* str.strip() on the message texts of the model
Strip(message) == IF message = " need info " THEN "need info" ELSE message

\* line 39-41: f"- {filename}: {message.strip()}", then " (blocking)"
FeedbackLine(item) ==
    [filename |-> Get(item, "filename", <<"unknown">>),
     message |-> Strip(Get(item, "message", "")),
     blocking |-> Get(item, "blocking", FALSE)]

\* _build_feedback_instructions that marks no line as blocking
_build_feedback_instructions_Unmarked(base_instructions, round, items) ==
    [base |-> base_instructions.base,
     round |-> round + 1,
     lines |-> [i \in 1..Len(items) |-> [FeedbackLine(items[i]) EXCEPT !.blocking = FALSE]]]

_build_feedback_instructions(base_instructions, round, items) ==
    [base |-> base_instructions.base,
     round |-> round + 1,
     lines |-> [i \in 1..Len(items) |-> FeedbackLine(items[i])]]

\* _run_build_check looking for the template before it looks for npm
_run_build_check_TemplateFirst(file_plans, implementations, env) ==
    IF ~env.template
    THEN <<FALSE, "Template source missing", <<>>>>
    ELSE IF ~env.npm
    THEN <<TRUE, "npm not available; build check skipped", <<>>>>
    ELSE IF env.cp # 0
    THEN <<FALSE, "Template copy failed", <<"mkdtemp", "cp">>>>
    ELSE IF \E f \in DOMAIN implementations : f \notin DOMAIN file_plans
    THEN <<FALSE, "No plan info", <<"mkdtemp", "cp", "overlay">>>>
    ELSE IF env.install # 0
    THEN <<FALSE, "install output", <<"mkdtemp", "cp", "overlay", "npm install">>>>
    ELSE IF env.build # 0
    THEN <<FALSE, "build output",
           <<"mkdtemp", "cp", "overlay", "npm install", "npm run build">>>>
    ELSE <<TRUE, "build stdout",
           <<"mkdtemp", "cp", "overlay", "npm install", "npm run build">>>>

\* _run_build_check running `npm install` without check=True
_run_build_check_InstallUnchecked(file_plans, implementations, env) ==
    IF ~env.npm
    THEN <<TRUE, "npm not available; build check skipped", <<>>>>
    ELSE IF ~env.template
    THEN <<FALSE, "Template source missing", <<>>>>
    ELSE IF env.cp # 0
    THEN <<FALSE, "Template copy failed", <<"mkdtemp", "cp">>>>
    ELSE IF \E f \in DOMAIN implementations : f \notin DOMAIN file_plans
    THEN <<FALSE, "No plan info", <<"mkdtemp", "cp", "overlay">>>>
    ELSE IF env.build # 0
    THEN <<FALSE, "build output",
           <<"mkdtemp", "cp", "overlay", "npm install", "npm run build">>>>
    ELSE <<TRUE, "build stdout",
           <<"mkdtemp", "cp", "overlay", "npm install", "npm run build">>>>

\* _run_build_check(file_plans, implementations) in environment env:
\* <<passed, log, the external steps taken, in order>>
_run_build_check(file_plans, implementations, env) ==
    IF ~env.npm
    THEN <<TRUE, "npm not available; build check skipped", <<>>>>
    ELSE IF ~env.template
    THEN <<FALSE, "Template source missing", <<>>>>
    ELSE IF env.cp # 0
    THEN <<FALSE, "Template copy failed", <<"mkdtemp", "cp">>>>
    ELSE IF \E f \in DOMAIN implementations : f \notin DOMAIN file_plans
    THEN <<FALSE, "No plan info", <<"mkdtemp", "cp", "overlay">>>>
    ELSE IF env.install # 0
    \* CalledProcessError of `npm install` skips `npm run build`
    THEN <<FALSE, "install output", <<"mkdtemp", "cp", "overlay", "npm install">>>>
    ELSE IF env.build # 0
    THEN <<FALSE, "build output",
           <<"mkdtemp", "cp", "overlay", "npm install", "npm run build">>>>
    ELSE <<TRUE, "build stdout",
           <<"mkdtemp", "cp", "overlay", "npm install", "npm run build">>>>

BuildRun(env, file_plans, implementations, checked) ==
    [env |-> env, file_plans |-> file_plans, implementations |-> implementations,
     passed |-> checked[1], log |-> checked[2], steps |-> checked[3]]

\* ---------------------------------------------------------------- run_orchestration_with_feedback

Running(fp, sid) == [state |-> "running", plan |-> fp, sid |-> sid]
Done(fp, sid, impl) == [state |-> "done", plan |-> fp, sid |-> sid, result |-> impl]

\* AssignSessions minting an id for every task, known filename or not
RECURSIVE AssignSessions_AlwaysMint(_, _, _)
AssignSessions_AlwaysMint(file_plans, session_map, n) ==
    IF file_plans = <<>> THEN [map |-> session_map, uuid |-> n, tasks |-> <<>>]
    ELSE LET before == AssignSessions_AlwaysMint(Front(file_plans), session_map, n)
             fp == Last(file_plans)
             sid == Uuid(before.uuid + 1)
         IN  [map |-> Put(before.map, fp.filename, sid),
              uuid |-> before.uuid + 1,
              tasks |-> Append(before.tasks, Running(fp, sid))]

\* the loop of _run_juniors_parallel over file_plans:
\* sid = session_map.setdefault(fp.filename, str(uuid.uuid4()))
RECURSIVE AssignSessions(_, _, _)
AssignSessions(file_plans, session_map, n) ==
    IF file_plans = <<>> THEN [map |-> session_map, uuid |-> n, tasks |-> <<>>]
    ELSE LET before == AssignSessions(Front(file_plans), session_map, n)
             fp == Last(file_plans)
             fresh == Uuid(before.uuid + 1)
             sid == Get(before.map, fp.filename, fresh)
         IN  [map |-> Put(before.map, fp.filename, sid),
              uuid |-> before.uuid + 1,
              tasks |-> Append(before.tasks, Running(fp, sid))]

\* ThreadPoolExecutor(max_workers=n) raises ValueError unless n > 0
ExecutorAccepts(max_workers) == max_workers > 0

\* gather returning as soon as one task has ended
GatherReturns_FirstEnded(ts) == \E i \in 1..Len(ts) : ts[i].state = "done"

\* line 123: await asyncio.gather(*tasks, return_exceptions=True) returns
\* once every task has ended, whether with a result or with an exception
GatherReturns(ts) == \A i \in 1..Len(ts) : ts[i].state = "done"

\* what gather returns: the results of the ended tasks, in list order
GatherResults(ts) ==
    LET Ended(t) == t.state = "done"
        ended == SelectSeq(ts, Ended)
    IN  [i \in 1..Len(ended) |-> ended[i].result]

\* CollectResults counting the error returns under "failed"
RECURSIVE CollectResults_CountsFailed(_)
CollectResults_CountsFailed(impl_results_list) ==
    IF impl_results_list = <<>>
    THEN [implementations |-> <<>>, errors |-> <<>>, failed |-> 0]
    ELSE LET before == CollectResults_CountsFailed(Front(impl_results_list))
             impl == Last(impl_results_list)
         IN  IF impl.type = "exception"
             THEN [implementations |-> before.implementations,
                   errors |-> Append(before.errors,
                                     [filename |-> <<"unknown">>, error |-> impl.message]),
                   failed |-> before.failed]
             ELSE [implementations |-> Append(before.implementations, impl),
                   errors |-> before.errors,
                   failed |-> before.failed + (IF impl.type = "error" THEN 1 ELSE 0)]

\* lines 161-168: the gathered list split into results and errors
RECURSIVE CollectResults(_)
CollectResults(impl_results_list) ==
    IF impl_results_list = <<>> THEN [implementations |-> <<>>, errors |-> <<>>]
    ELSE LET before == CollectResults(Front(impl_results_list))
             impl == Last(impl_results_list)
         IN  IF impl.type = "exception"
             THEN [implementations |-> before.implementations,
                   errors |-> Append(before.errors,
                                     [filename |-> <<"unknown">>, error |-> impl.message])]
             ELSE [implementations |-> Append(before.implementations, impl),
                   errors |-> before.errors]

\* MergeImplementations that keeps the content a filename already has
RECURSIVE MergeImplementations_KeepFirst(_, _)
MergeImplementations_KeepFirst(map, impl_results_list) ==
    IF impl_results_list = <<>> THEN map
    ELSE LET before == MergeImplementations_KeepFirst(map, Front(impl_results_list))
             impl == Last(impl_results_list)
         IN  IF Get(impl, "type", "") = "implementation" /\ impl.filename \notin DOMAIN before
             THEN Put(before, impl.filename, impl.content)
             ELSE before

\* MergeImplementations dropping the content of a file that answers with feedback
RECURSIVE MergeImplementations_DropsOnFeedback(_, _)
MergeImplementations_DropsOnFeedback(map, impl_results_list) ==
    IF impl_results_list = <<>> THEN map
    ELSE LET before == MergeImplementations_DropsOnFeedback(map, Front(impl_results_list))
             impl == Last(impl_results_list)
         IN  IF Get(impl, "type", "") = "implementation"
             THEN Put(before, impl.filename, impl.content)
             ELSE IF Get(impl, "type", "") = "feedback"
             THEN [f \in DOMAIN before \ {impl.filename} |-> before[f]]
             ELSE before

\* lines 167-168: implementation_map[impl["filename"]] = impl["content"],
\* in list order
RECURSIVE MergeImplementations(_, _)
MergeImplementations(map, impl_results_list) ==
    IF impl_results_list = <<>> THEN map
    ELSE LET before == MergeImplementations(map, Front(impl_results_list))
             impl == Last(impl_results_list)
         IN  IF Get(impl, "type", "") = "implementation"
             THEN Put(before, impl.filename, impl.content)
             ELSE before

RECURSIVE Join(_)
Join(names) == IF names = <<>> THEN <<>> ELSE Join(Front(names)) \o Last(names)

\* missing_files looking at the first planned file only
missing_files_FirstOnly(plan_files, map) ==
    IF plan_files # <<>> /\ plan_files[1].filename \notin DOMAIN map
    THEN <<plan_files[1].filename>>
    ELSE <<>>

\* missing_files that finds nothing missing
missing_files_Nothing(plan_files, map) == <<>>

missing_files(plan_files, map) ==
    LET IsMissing(fp) == fp.filename \notin DOMAIN map
        missing == SelectSeq(plan_files, IsMissing)
    IN  [i \in 1..Len(missing) |-> missing[i].filename]

MissingFeedback(missing) ==
    [type |-> "feedback", filename |-> Join(missing),
     message |-> "Missing implementations for planned files", blocking |-> TRUE]

\* BuildFeedback without the blocking flag set
BuildFeedback_NonBlocking(build_log) ==
    [type |-> "feedback", filename |-> <<"build">>, message |-> build_log, blocking |-> FALSE]

BuildFeedback(build_log) ==
    [type |-> "feedback", filename |-> <<"build">>, message |-> build_log, blocking |-> TRUE]

\* AnyBlocking looking at the first item only
AnyBlocking_FirstOnly(items) == items # <<>> /\ Get(items[1], "blocking", FALSE)

AnyBlocking(items) == \E i \in 1..Len(items) : Get(items[i], "blocking", FALSE)

Returned(status) == [type |-> "feedback_loop", status |-> status]

\* WithFeedback writing into the first iteration
WithFeedback_First(its, items) ==
    [its EXCEPT ![1].feedback = items]

\* WithFeedback keeping the last iteration only
WithFeedback_DropEarlier(its, items) ==
    <<[its[Len(its)] EXCEPT !.feedback = items]>>

\* WithFeedback when the iteration holds a copy of the list made at append time
WithFeedback_Copy(its, items) == its

\* feedback_items is the very list stored in the last iteration
WithFeedback(its, items) ==
    [its EXCEPT ![Len(its)].feedback = items]

Init ==
    /\ pc = "plan"
    /\ max_rounds \in 1..MaxRounds
    /\ orchestrator_client \in BOOLEAN
    /\ junior_client \in BOOLEAN
    /\ uuid_count = 1
    \* a session a caller made earlier through process_chat without an id
    /\ chat_sessions = (KnownSession :> <<>>)
    /\ junior_sessions = EmptyMap
    \* orchestrator_session or f"orch-loop-{uuid.uuid4()}"
    /\ orch_session \in {KnownSession, StaleSession, <<"orch-loop", 1>>}
    /\ round_index = 0
    /\ current_instructions = Instructions
    /\ plan = <<>>
    /\ tasks = <<>>
    /\ file_plan_map = EmptyMap
    /\ implementation_map = EmptyMap
    /\ junior_session_map = EmptyMap
    /\ iterations = <<>>
    /\ feedback_items = <<>>
    /\ blocking = FALSE
    /\ result = [type |-> "none"]
    /\ plan_calls = <<>>
    /\ worker_calls = <<>>
    /\ build_calls = <<>>
    /\ build_run = <<>>
    /\ worker_run = <<>>
    /\ batch = <<>>
    /\ cleaning = <<>>

\* FinishRound with the round budget checked one round late
FinishRound_OneMore(now_blocking, items) ==
    IF round_index = max_rounds - 1 /\ ~now_blocking
    THEN /\ pc' = "done"
         /\ result' = Returned("soft_limit_reached") @@ [build_status |-> "skipped"]
         /\ UNCHANGED <<round_index, current_instructions>>
    ELSE /\ current_instructions' =
                _build_feedback_instructions(Instructions, round_index, items)
         /\ IF round_index + 1 < max_rounds + 1
            THEN /\ round_index' = round_index + 1
                 /\ pc' = "plan"
                 /\ UNCHANGED result
            ELSE /\ pc' = "done"
                 /\ result' = Returned("max_rounds_reached")
                 /\ UNCHANGED round_index

\* FinishRound giving up one round early
FinishRound_OneLess(now_blocking, items) ==
    IF round_index = max_rounds - 1 /\ ~now_blocking
    THEN /\ pc' = "done"
         /\ result' = Returned("soft_limit_reached") @@ [build_status |-> "skipped"]
         /\ UNCHANGED <<round_index, current_instructions>>
    ELSE /\ current_instructions' =
                _build_feedback_instructions(Instructions, round_index, items)
         /\ IF round_index + 2 < max_rounds
            THEN /\ round_index' = round_index + 1
                 /\ pc' = "plan"
                 /\ UNCHANGED result
            ELSE /\ pc' = "done"
                 /\ result' = Returned("max_rounds_reached")
                 /\ UNCHANGED round_index

\* lines 219-243: after a round that did not return completed
FinishRound(now_blocking, items) ==
    IF round_index = max_rounds - 1 /\ ~now_blocking
    THEN /\ pc' = "done"
         /\ result' = Returned("soft_limit_reached") @@ [build_status |-> "skipped"]
         /\ UNCHANGED <<round_index, current_instructions>>
    ELSE /\ current_instructions' =
                _build_feedback_instructions(Instructions, round_index, items)
         /\ IF round_index + 1 < max_rounds
            THEN /\ round_index' = round_index + 1
                 /\ pc' = "plan"
                 /\ UNCHANGED result
            ELSE /\ pc' = "done"
                 /\ result' = Returned("max_rounds_reached")
                 /\ UNCHANGED round_index

\* line 147: plan_result.get("type") != "plan" is false
IsPlan(plan_result) == Get(plan_result, "type", "") = "plan"

\* ErrorReturn that always reports the default text
ErrorReturn_Default(plan_result) ==
    [type |-> "error", content |-> "Orchestrator did not return a plan"]

\* lines 148-152
ErrorReturn(plan_result) ==
    [type |-> "error",
     content |-> Get(plan_result, "content", "Orchestrator did not return a plan")]

\* RecordFilePlans starting from an empty map in every round
RecordFilePlans_Replace(map, files) ==
    [f \in {files[i].filename : i \in 1..Len(files)} |->
        files[CHOOSE i \in 1..Len(files) :
                 /\ files[i].filename = f
                 /\ \A j \in 1..Len(files) : files[j].filename = f => j <= i]]

\* lines 155-156: file_plan_map[fp.filename] = fp.model_dump(), in list order
RecordFilePlans(map, files) ==
    [f \in DOMAIN map \cup {files[i].filename : i \in 1..Len(files)} |->
        IF \E i \in 1..Len(files) : files[i].filename = f
        THEN files[CHOOSE i \in 1..Len(files) :
                      /\ files[i].filename = f
                      /\ \A j \in 1..Len(files) : files[j].filename = f => j <= i]
        ELSE map[f]]

\* the session id only the first round passes on
plan_session_id_FirstRoundOnly(round) == IF round = 0 THEN orch_session ELSE NoSession

\* line 145: session_id=orch_session, in every round
plan_session_id(round) == orch_session

\* lines 144-159: the plan-generation call, and on a plan the start of the
\* round's worker tasks
PlanStep(reply) ==
    /\ pc = "plan"
    /\ LET pr == process_chat(current_instructions, plan_session_id(round_index), reply,
                              chat_sessions, orchestrator_client, uuid_count)
           plan_result == pr.result
       IN
       /\ chat_sessions' = pr.sessions
       /\ plan_calls' = Append(plan_calls, [reply |-> reply.kind, result |-> plan_result,
                                             session_id |-> plan_session_id(round_index),
                                             instructions |-> current_instructions])
       /\ IF ~IsPlan(plan_result)
          THEN /\ pc' = "done"
               /\ result' = ErrorReturn(plan_result)
               /\ uuid_count' = pr.uuid
               /\ UNCHANGED <<plan, tasks, file_plan_map, junior_session_map, worker_calls>>
          ELSE
          LET files == plan_result.content
              fpm == RecordFilePlans(file_plan_map, files)
              started == AssignSessions(files, junior_session_map, pr.uuid)
          IN
          /\ plan' = files
          /\ file_plan_map' = fpm
          /\ IF ExecutorAccepts(Len(files))
             THEN /\ junior_session_map' = started.map
                  /\ uuid_count' = started.uuid
                  /\ tasks' = started.tasks
                  /\ worker_calls' = Append(worker_calls, Len(files))
                  /\ pc' = "workers"
                  /\ UNCHANGED result
             ELSE /\ pc' = "done"
                  /\ result' = [type |-> "exception", content |-> "ValueError"]
                  /\ uuid_count' = pr.uuid
                  /\ UNCHANGED <<junior_session_map, tasks, worker_calls>>
    /\ UNCHANGED <<max_rounds, orchestrator_client, junior_client, junior_sessions,
                   orch_session, round_index, current_instructions,
                   implementation_map, iterations, feedback_items, blocking,
                   build_calls, build_run, worker_run, batch, cleaning>>

\* one task of _run_juniors_parallel runs to its end (line 121); the tasks
\* of a round end in any order
WorkerReturn(i, reply) ==
    /\ pc = "workers"
    /\ i \in 1..Len(tasks)
    /\ tasks[i].state = "running"
    /\ IF reply.kind = "task_raise"
       THEN /\ tasks' = [tasks EXCEPT ![i] =
                            Done(tasks[i].plan, tasks[i].sid,
                                 [type |-> "exception", message |-> "task failed"])]
            /\ UNCHANGED <<junior_sessions, uuid_count>>
       ELSE LET r == implement_component(tasks[i].plan, tasks[i].sid, reply,
                                         junior_sessions, junior_client, uuid_count)
            IN  /\ tasks' = [tasks EXCEPT ![i] = Done(tasks[i].plan, tasks[i].sid, r.result)]
                /\ junior_sessions' = r.sessions
                /\ uuid_count' = r.uuid
    /\ UNCHANGED <<pc, max_rounds, orchestrator_client, junior_client, chat_sessions,
                   orch_session, round_index, current_instructions, plan,
                   file_plan_map, implementation_map, junior_session_map,
                   iterations, feedback_items, blocking, result, plan_calls,
                   worker_calls, build_calls, build_run, worker_run, batch, cleaning>>

\* lines 159-194 and, when the round is blocking, 219-243: gather returns,
\* the results are merged and summarized
Aggregate ==
    /\ pc = "workers"
    /\ GatherReturns(tasks)
    /\ LET impl_results_list == GatherResults(tasks)
           impl_results == CollectResults(impl_results_list)
           merged == MergeImplementations(implementation_map, impl_results.implementations)
           summary == _summarize_feedback(impl_results, plan)
           recorded == Append(iterations,
                              [plan |-> plan, implementations |-> impl_results,
                               feedback |-> summary])
           missing == missing_files(plan, merged)
           items == IF missing # <<>> THEN Append(summary, MissingFeedback(missing))
                    ELSE summary
           now_blocking == AnyBlocking(summary) \/ missing # <<>>
       IN
       /\ implementation_map' = merged
       /\ feedback_items' = items
       /\ iterations' = WithFeedback(recorded, items)
       /\ blocking' = now_blocking
       /\ IF ~now_blocking /\ Get(impl_results, "failed", 0) = 0
          THEN /\ pc' = "build"
               /\ UNCHANGED <<result, round_index, current_instructions>>
          ELSE FinishRound(now_blocking, items)
    /\ UNCHANGED <<max_rounds, orchestrator_client, junior_client, uuid_count,
                   chat_sessions, junior_sessions, orch_session, plan, tasks,
                   file_plan_map, junior_session_map, plan_calls, worker_calls,
                   build_calls, build_run, worker_run, batch, cleaning>>

\* the build check given the contents of the current plan's files only
BuildInput_CurrentPlan(map, plan_files) ==
    [f \in {g \in DOMAIN map : \E i \in 1..Len(plan_files) : plan_files[i].filename = g}
        |-> map[f]]

\* line 195: the build check is given implementation_map itself
BuildInput(map, plan_files) == map

\* lines 195-243: the build check of a round without blocking feedback
BuildStep(env) ==
    /\ pc = "build"
    /\ LET checked == _run_build_check(file_plan_map,
                                       BuildInput(implementation_map, plan), env)
           build_ok == checked[1]
           build_log == checked[2]
       IN
       /\ build_calls' = Append(build_calls, [round |-> round_index, passed |-> build_ok])
       /\ build_run' = <<BuildRun(env, file_plan_map,
                                   BuildInput(implementation_map, plan), checked)>>
       /\ IF build_ok
           THEN /\ pc' = "done"
                /\ result' = Returned("completed") @@
                             [build_status |-> "passed", build_log |-> build_log]
                /\ UNCHANGED <<feedback_items, iterations, blocking, round_index,
                               current_instructions>>
           ELSE LET items == Append(feedback_items, BuildFeedback(build_log))
                IN  /\ feedback_items' = items
                    /\ iterations' = WithFeedback(iterations, items)
                    /\ blocking' = TRUE
                    /\ FinishRound(TRUE, items)
    /\ UNCHANGED <<max_rounds, orchestrator_client, junior_client, uuid_count,
                   chat_sessions, junior_sessions, orch_session, plan, tasks,
                   file_plan_map, implementation_map, junior_session_map,
                   plan_calls, worker_calls, worker_run, batch, cleaning>>

Next ==
    \/ \E reply \in OrchReplies : PlanStep(reply)
    \/ \E i \in 1..MaxFiles, reply \in JuniorReplies : WorkerReturn(i, reply)
    \/ Aggregate
    \/ \E env \in BuildEnvs : BuildStep(env)

Spec == Init /\ [][Next]_vars

\* ---------------------------------------------------------------- _run_build_check alone

\* _run_build_check called on any pair of dicts, in any environment
InitBuild ==
    /\ pc = "build_check"
    /\ file_plan_map \in {[f \in keys |-> FilePlan(f)] : keys \in SUBSET Filenames}
    /\ implementation_map \in UNION {[keys -> Contents] : keys \in SUBSET Filenames}
    /\ max_rounds = 1
    /\ orchestrator_client = TRUE
    /\ junior_client = TRUE
    /\ uuid_count = 0
    /\ chat_sessions = EmptyMap
    /\ junior_sessions = EmptyMap
    /\ orch_session = NoSession
    /\ round_index = 0
    /\ current_instructions = Instructions
    /\ plan = <<>>
    /\ tasks = <<>>
    /\ junior_session_map = EmptyMap
    /\ iterations = <<>>
    /\ feedback_items = <<>>
    /\ blocking = FALSE
    /\ result = [type |-> "none"]
    /\ plan_calls = <<>>
    /\ worker_calls = <<>>
    /\ build_calls = <<>>
    /\ build_run = <<>>
    /\ worker_run = <<>>
    /\ batch = <<>>
    /\ cleaning = <<>>

BuildCheck(env) ==
    /\ pc = "build_check"
    /\ pc' = "build_checked"
    /\ build_run' = <<BuildRun(env, file_plan_map, implementation_map,
                                _run_build_check(file_plan_map, implementation_map, env))>>
    /\ UNCHANGED <<max_rounds, orchestrator_client, junior_client, uuid_count,
                   chat_sessions, junior_sessions, orch_session, round_index,
                   current_instructions, plan, tasks, file_plan_map,
                   implementation_map, junior_session_map, iterations,
                   feedback_items, blocking, result, plan_calls, worker_calls,
                   build_calls, worker_run, batch, cleaning>>

NextBuild == \E env \in AllBuildEnvs : BuildCheck(env)

SpecBuild == InitBuild /\ [][NextBuild]_vars

\* ---------------------------------------------------------------- implement_component alone

\* implement_component called for one file plan, with or without a session
\* id, with or without earlier turns in that session
InitJunior ==
    /\ pc = "implement"
    /\ junior_client \in BOOLEAN
    /\ uuid_count = 1
    /\ \E fp \in {FilePlan(f) : f \in Filenames}, sid \in {NoSession, Uuid(1)} :
        tasks = <<Running(fp, sid)>>
    /\ junior_sessions \in
        {EmptyMap,
         Uuid(1) :> <<[role |-> "user", content |-> <<"A.tsx">>],
                      [role |-> "assistant", content |-> [kind |-> "code", body |-> "v1"]]>>}
    /\ max_rounds = 1
    /\ orchestrator_client = TRUE
    /\ chat_sessions = EmptyMap
    /\ orch_session = NoSession
    /\ round_index = 0
    /\ current_instructions = Instructions
    /\ plan = <<>>
    /\ file_plan_map = EmptyMap
    /\ implementation_map = EmptyMap
    /\ junior_session_map = EmptyMap
    /\ iterations = <<>>
    /\ feedback_items = <<>>
    /\ blocking = FALSE
    /\ result = [type |-> "none"]
    /\ plan_calls = <<>>
    /\ worker_calls = <<>>
    /\ build_calls = <<>>
    /\ build_run = <<>>
    /\ worker_run = <<>>
    /\ batch = <<>>
    /\ cleaning = <<>>

Implement(reply) ==
    /\ pc = "implement"
    /\ pc' = "implemented"
    /\ LET r == implement_component(tasks[1].plan, tasks[1].sid, reply,
                                    junior_sessions, junior_client, uuid_count)
       IN  /\ tasks' = <<Done(tasks[1].plan, tasks[1].sid, r.result)>>
           /\ junior_sessions' = r.sessions
           /\ uuid_count' = r.uuid
           /\ worker_run' = <<[file_plan |-> tasks[1].plan, session_id |-> tasks[1].sid,
                               reply |-> reply, result |-> r.result]>>
    /\ UNCHANGED <<max_rounds, orchestrator_client, junior_client, chat_sessions,
                   orch_session, round_index, current_instructions, plan,
                   file_plan_map, implementation_map, junior_session_map,
                   iterations, feedback_items, blocking, result, plan_calls,
                   worker_calls, build_calls, build_run, batch, cleaning>>

NextJunior == \E reply \in AllJuniorReplies \ {[kind |-> "task_raise"]} : Implement(reply)

SpecJunior == InitJunior /\ [][NextJunior]_vars

\* ---------------------------------------------------------------- clean_code_output alone

\* the state of the feedback loop when it is not run
LoopIdle ==
    /\ max_rounds = 1
    /\ orchestrator_client = TRUE
    /\ chat_sessions = EmptyMap
    /\ orch_session = NoSession
    /\ round_index = 0
    /\ current_instructions = Instructions
    /\ file_plan_map = EmptyMap
    /\ implementation_map = EmptyMap
    /\ junior_session_map = EmptyMap
    /\ iterations = <<>>
    /\ feedback_items = <<>>
    /\ blocking = FALSE
    /\ plan_calls = <<>>
    /\ worker_calls = <<>>
    /\ build_calls = <<>>
    /\ build_run = <<>>
    /\ worker_run = <<>>

\* clean_code_output called on a text, and then on what it returned
InitClean ==
    /\ pc = "clean"
    /\ cleaning \in {[code |-> code, returned |-> <<>>] : code \in Texts}
    /\ LoopIdle
    /\ junior_client = TRUE
    /\ uuid_count = 0
    /\ junior_sessions = EmptyMap
    /\ plan = <<>>
    /\ tasks = <<>>
    /\ result = [type |-> "none"]
    /\ batch = <<>>

Clean ==
    /\ pc \in {"clean", "cleaned"}
    /\ pc' = IF pc = "clean" THEN "cleaned" ELSE "cleaned_again"
    /\ LET code == IF pc = "clean" THEN cleaning.code ELSE Last(cleaning.returned)
       IN  cleaning' = [cleaning EXCEPT !.returned = @ \o <<clean_code_output_text(code)>>]
    /\ UNCHANGED <<max_rounds, orchestrator_client, junior_client, uuid_count,
                   chat_sessions, junior_sessions, orch_session, round_index,
                   current_instructions, plan, tasks, file_plan_map,
                   implementation_map, junior_session_map, iterations,
                   feedback_items, blocking, result, plan_calls, worker_calls,
                   build_calls, build_run, worker_run, batch>>

NextClean == Clean

SpecClean == InitClean /\ [][NextClean]_vars

\* ---------------------------------------------------------------- implement_multiple_components

\* lines 452-458: the error list gets the file's name and the error text,
\* the implementation list gets every other result; here with the error
\* entry left without the file's name
BatchRecord_ErrorsUnnamed(locals, file_plan, impl) ==
    IF impl.type = "error"
    THEN [locals EXCEPT !.errors =
            Append(@, [filename |-> <<"unknown">>, error |-> impl.content])]
    ELSE [locals EXCEPT !.implementations = Append(@, impl)]

\* lines 452-458: the error list gets the file's name and the error text,
\* the implementation list gets every other result
BatchRecord(locals, file_plan, impl) ==
    IF impl.type = "error"
    THEN [locals EXCEPT !.errors =
            Append(@, [filename |-> file_plan.filename, error |-> impl.content])]
    ELSE [locals EXCEPT !.implementations = Append(@, impl)]

\* implement_multiple_components(file_plans, global_style, session_id)
\* after lines 443-447: the session id is the caller's or a new one
InitBatch ==
    /\ pc = "batch"
    /\ plan \in PlanFiles
    /\ junior_client \in BOOLEAN
    /\ \E session_id \in {NoSession, KnownSession} :
        /\ uuid_count = IF session_id = NoSession THEN 1 ELSE 0
        /\ batch = [session_id |-> IF session_id = NoSession THEN Uuid(1) ELSE session_id,
                    implementations |-> <<>>, errors |-> <<>>, replies |-> <<>>]
    /\ junior_sessions = EmptyMap
    /\ tasks = <<>>
    /\ result = [type |-> "none"]
    /\ cleaning = <<>>
    /\ LoopIdle

\* one turn of the loop of lines 449-458: the next file plan, in list
\* order, is implemented on the shared session and its result recorded
BatchStep(reply) ==
    /\ pc = "batch"
    /\ Len(tasks) < Len(plan)
    \* without a client no request is made and no reply is met
    /\ junior_client \/ reply = [kind |-> "empty"]
    /\ LET file_plan == plan[Len(tasks) + 1]
           r == implement_component(file_plan, batch.session_id, reply,
                                    junior_sessions, junior_client, uuid_count)
       IN  /\ tasks' = Append(tasks, Done(file_plan, batch.session_id, r.result))
           /\ junior_sessions' = r.sessions
           /\ uuid_count' = r.uuid
           /\ batch' = [BatchRecord(batch, file_plan, r.result) EXCEPT !.replies =
                            Append(@, IF junior_client THEN reply ELSE [kind |-> "none"])]
    /\ UNCHANGED <<pc, max_rounds, orchestrator_client, junior_client, chat_sessions,
                   orch_session, round_index, current_instructions, plan,
                   file_plan_map, implementation_map, junior_session_map,
                   iterations, feedback_items, blocking, result, plan_calls,
                   worker_calls, build_calls, build_run, worker_run, cleaning>>

\* lines 460-468: the returned dict
BatchReturn ==
    /\ pc = "batch"
    /\ Len(tasks) = Len(plan)
    /\ pc' = "batch_done"
    /\ result' = [type |-> "batch_implementation",
                  implementations |-> batch.implementations,
                  errors |-> batch.errors,
                  session_id |-> batch.session_id,
                  total_files |-> Len(plan),
                  successful |-> Len(batch.implementations),
                  failed |-> Len(batch.errors)]
    /\ UNCHANGED <<max_rounds, orchestrator_client, junior_client, uuid_count,
                   chat_sessions, junior_sessions, orch_session, round_index,
                   current_instructions, plan, tasks, file_plan_map,
                   implementation_map, junior_session_map, iterations,
                   feedback_items, blocking, plan_calls, worker_calls,
                   build_calls, build_run, worker_run, batch, cleaning>>

NextBatch ==
    \/ \E reply \in AllJuniorReplies \ {[kind |-> "task_raise"]} : BatchStep(reply)
    \/ BatchReturn

SpecBatch == InitBatch /\ [][NextBatch]_vars

\* ---------------------------------------------------------------- _run_juniors_parallel, statement by statement

\* a worker thread of _run_juniors_parallel: where it stands in
\* implement_component, the history of its session when it was started,
\* and the reply it is about to record
Thread(file_plan, sid, entry) ==
    [state |-> "running", plan |-> file_plan, sid |-> sid, entry |-> entry,
     reply |-> [kind |-> "none"], result |-> [type |-> "none"]]

\* a session some earlier round left behind
EarlierTurns ==
    <<[role |-> "user", content |-> <<"A.tsx">>],
      [role |-> "assistant", content |-> [kind |-> "code", body |-> "v1"]]>>

\* one round's fan-out, after the loop of lines 118-122 has given every
\* file plan its session id and its thread
InitFanOut ==
    /\ pc = "fanout"
    /\ plan \in PlanFiles
    /\ ExecutorAccepts(Len(plan))
    /\ junior_client \in BOOLEAN
    /\ \E earlier \in BOOLEAN :
        LET session_map == IF earlier THEN <<"A.tsx">> :> Uuid(1) ELSE EmptyMap
            sessions == IF earlier THEN Uuid(1) :> EarlierTurns ELSE EmptyMap
            assigned == AssignSessions(plan, session_map, 1)
        IN  /\ junior_sessions = sessions
            /\ uuid_count = assigned.uuid
            /\ tasks = [i \in 1..Len(plan) |->
                           Thread(plan[i], assigned.tasks[i].sid,
                                  Get(sessions, assigned.tasks[i].sid, <<>>))]
    /\ result = [type |-> "none"]
    /\ batch = <<>>
    /\ cleaning = <<>>
    /\ LoopIdle

FanOutUnchanged ==
    UNCHANGED <<pc, max_rounds, orchestrator_client, junior_client, uuid_count,
                chat_sessions, orch_session, round_index, current_instructions,
                plan, file_plan_map, implementation_map, junior_session_map,
                iterations, feedback_items, blocking, result, plan_calls,
                worker_calls, build_calls, build_run, worker_run, batch, cleaning>>

\* lines 262-273: without a client the call returns an error; else it
\* looks its session up
TaskEnter(i) ==
    /\ pc = "fanout"
    /\ tasks[i].state = "running"
    /\ tasks' = [tasks EXCEPT ![i] =
                    IF ~junior_client
                    THEN [@ EXCEPT !.state = "done",
                                   !.result = JuniorError("API key is not set", tasks[i].sid)]
                    ELSE IF tasks[i].sid \notin DOMAIN junior_sessions
                    THEN [@ EXCEPT !.state = "creating"]
                    ELSE [@ EXCEPT !.state = "calling"]]
    /\ UNCHANGED junior_sessions
    /\ FanOutUnchanged

\* line 274: junior_sessions[session_id] = []
TaskCreateSession(i) ==
    /\ pc = "fanout"
    /\ tasks[i].state = "creating"
    /\ junior_sessions' = Put(junior_sessions, tasks[i].sid, <<>>)
    /\ tasks' = [tasks EXCEPT ![i].state = "calling"]
    /\ FanOutUnchanged

\* lines 276-338: the request is made and answered; a failure ends the call,
\* any other reply is made into the result the call will return
TaskReply(i, reply) ==
    /\ pc = "fanout"
    /\ tasks[i].state = "calling"
    /\ tasks' = [tasks EXCEPT ![i] =
                    IF reply.kind = "task_raise"
                    THEN [@ EXCEPT !.state = "done",
                                   !.result = [type |-> "exception", message |-> "task failed"]]
                    ELSE LET r == implement_component(tasks[i].plan, tasks[i].sid, reply,
                                                      junior_sessions, junior_client, uuid_count)
                         IN  IF r.result.type = "error"
                             THEN [@ EXCEPT !.state = "done", !.result = r.result]
                             ELSE [@ EXCEPT !.state = "appending", !.reply = reply,
                                            !.result = r.result]]
    /\ UNCHANGED junior_sessions
    /\ FanOutUnchanged

\* line 340: junior_sessions[session_id].append(user turn)
TaskAppendUser(i) ==
    /\ pc = "fanout"
    /\ tasks[i].state = "appending"
    /\ junior_sessions' = [junior_sessions EXCEPT ![tasks[i].sid] =
                              Append(@, UserTurn(tasks[i].plan))]
    /\ tasks' = [tasks EXCEPT ![i].state = "appended_user"]
    /\ FanOutUnchanged

\* lines 341-343: junior_sessions[session_id].append(assistant turn), return
TaskAppendAssistant(i) ==
    /\ pc = "fanout"
    /\ tasks[i].state = "appended_user"
    /\ junior_sessions' = [junior_sessions EXCEPT ![tasks[i].sid] =
                              Append(@, AssistantTurn(tasks[i].reply))]
    /\ tasks' = [tasks EXCEPT ![i].state = "done"]
    /\ FanOutUnchanged

\* line 123: gather returns once every thread has ended
FanOutReturn ==
    /\ pc = "fanout"
    /\ GatherReturns(tasks)
    /\ pc' = "gathered"
    /\ UNCHANGED <<max_rounds, orchestrator_client, junior_client, uuid_count,
                   chat_sessions, junior_sessions, orch_session, round_index,
                   current_instructions, plan, tasks, file_plan_map,
                   implementation_map, junior_session_map, iterations,
                   feedback_items, blocking, result, plan_calls, worker_calls,
                   build_calls, build_run, worker_run, batch, cleaning>>

NextFanOut ==
    \/ \E i \in 1..Len(tasks) : TaskEnter(i)
    \/ \E i \in 1..Len(tasks) : TaskCreateSession(i)
    \/ \E i \in 1..Len(tasks), reply \in JuniorReplies : TaskReply(i, reply)
    \/ \E i \in 1..Len(tasks) : TaskAppendUser(i)
    \/ \E i \in 1..Len(tasks) : TaskAppendAssistant(i)
    \/ FanOutReturn

SpecFanOut == InitFanOut /\ [][NextFanOut]_vars

\* ---------------------------------------------------------------- properties

Finished == pc = "done"
Completed == Finished /\ result.type = "feedback_loop" /\ result.status = "completed"
MaxRoundsReached ==
    Finished /\ result.type = "feedback_loop" /\ result.status = "max_rounds_reached"
Errored == Finished /\ result.type = "error"
Raised == Finished /\ result.type = "exception"

TerminalStatuses == {"completed", "soft_limit_reached", "max_rounds_reached"}

\* the raw worker results of an iteration, exceptions included
RawResults(it) == it.implementations.implementations
RawErrors(it) == it.implementations.errors

AllOfType(it, type) ==
    /\ RawErrors(it) = <<>>
    /\ Len(RawResults(it)) = Len(it.plan)
    /\ \A i \in 1..Len(RawResults(it)) : RawResults(it)[i].type = type

AllBlockingFeedback(it) ==
    /\ AllOfType(it, "feedback")
    /\ \A i \in 1..Len(RawResults(it)) : RawResults(it)[i].blocking

HasBlocking(items) == \E i \in 1..Len(items) : items[i].blocking

PlanFilenames(files) == {files[i].filename : i \in 1..Len(files)}

\* the build check took this external step
Ran(run, step) == \E i \in 1..Len(run.steps) : run.steps[i] = step

\* C1: the loop never ends by raising: when it ends it has returned an error
\* result or a feedback_loop result in one of the terminal statuses.
C1_EndsByReturning ==
    Finished =>
        \/ result.type = "error"
        \/ result.type = "feedback_loop" /\ result.status \in TerminalStatuses

\* C2: the rounds started (plan-generation calls) and the recorded
\* iterations never exceed max_rounds.
C2_RoundsBounded ==
    /\ Len(plan_calls) <= max_rounds
    /\ Len(iterations) <= max_rounds
    /\ round_index < max_rounds

C2_Witness ==
    /\ Finished
    /\ max_rounds = MaxRounds
    /\ Len(plan_calls) = max_rounds
    /\ Len(iterations) = max_rounds

\* C3: a completed result comes from a round without blocking feedback,
\* whose planned filenames all have content in the cumulative map, and
\* whose build check passed.
C3_CompletedIsClean ==
    Completed =>
        /\ Len(iterations) = round_index + 1
        /\ ~HasBlocking(Last(iterations).feedback)
        /\ Last(iterations).plan = plan
        /\ PlanFilenames(plan) \subseteq DOMAIN implementation_map
        /\ build_calls # <<>>
        /\ Last(build_calls) = [round |-> round_index, passed |-> TRUE]
        /\ result.build_status = "passed"

C3_Witness ==
    /\ Completed
    /\ round_index = 1
    /\ Len(plan) = 2
    /\ \E i \in 1..Len(feedback_items) : ~feedback_items[i].blocking

\* C4: the build check runs in a round only when that round's feedback has
\* no blocking item and no planned filename lacks content; a round with a
\* blocking item or a missing file has no build check.
RoundWasClean(it) ==
    \A i \in 1..Len(it.feedback) :
        it.feedback[i].blocking => it.feedback[i].filename = <<"build">>

C4_BuildOnlyWhenClean ==
    /\ pc = "build" =>
        /\ ~HasBlocking(feedback_items)
        /\ PlanFilenames(plan) \subseteq DOMAIN implementation_map
        /\ Len(iterations) = round_index + 1
    /\ \A j \in 1..Len(build_calls) :
        /\ build_calls[j].round + 1 \in 1..Len(iterations)
        /\ RoundWasClean(iterations[build_calls[j].round + 1])
        /\ PlanFilenames(iterations[build_calls[j].round + 1].plan)
               \subseteq DOMAIN implementation_map
    /\ \A k \in 1..Len(iterations) :
        ~RoundWasClean(iterations[k]) =>
            \A j \in 1..Len(build_calls) : build_calls[j].round # k - 1

C4_Witness ==
    /\ Len(iterations) = 2
    /\ ~RoundWasClean(iterations[1])
    /\ Len(build_calls) = 1
    /\ build_calls[1].round = 1

\* C5: when every plan-generation call returned a plan and every round
\* ended blocking, the loop returns max_rounds_reached after exactly
\* max_rounds rounds, with that many iterations.
EveryRoundBlocking ==
    /\ Len(plan_calls) = Len(iterations)
    /\ \A k \in 1..Len(iterations) : HasBlocking(iterations[k].feedback)

C5_BlockingRunsOutOfRounds ==
    (Finished /\ EveryRoundBlocking) =>
        /\ MaxRoundsReached
        /\ Len(iterations) = max_rounds
        /\ Len(plan_calls) = max_rounds
        /\ round_index = max_rounds - 1

C5_Witness ==
    /\ MaxRoundsReached
    /\ max_rounds = MaxRounds
    /\ \A k \in 1..Len(iterations) :
        Len(iterations[k].plan) = 2 /\ AllBlockingFeedback(iterations[k])

\* C6: a freshly started loop whose plan generator is answered with a
\* well-formed plan, whose workers all return implementations and whose
\* build check is skipped returns completed after round 1, with one
\* iteration and an implementations map keyed by the plan's filenames.
FreshLoop == orch_session = <<"orch-loop", 1>>

C6_FreshLoopCompletes ==
    (/\ Finished
     /\ FreshLoop
     /\ orchestrator_client
     /\ plan_calls[1].reply = "plan"
     /\ \A k \in 1..Len(iterations) : AllOfType(iterations[k], "implementation")
     /\ \A j \in 1..Len(build_calls) : build_calls[j].passed)
    => /\ Completed
       /\ Len(iterations) = 1
       /\ DOMAIN implementation_map = PlanFilenames(plan)

\* C7: after a first round in which every worker returned blocking feedback
\* the loop runs a second round; when that round's workers all return
\* implementations and the build passes, the loop returns completed with
\* two iterations, and iterations[0].feedback still holds the first round's
\* blocking items unchanged.
FeedbackKept(it) ==
    \A i \in 1..Len(RawResults(it)) :
        RawResults(it)[i].type = "feedback" =>
            \E j \in 1..Len(it.feedback) : it.feedback[j] = RawResults(it)[i]

C7_SecondRoundCompletes ==
    /\ (Finished /\ max_rounds >= 2 /\ iterations # <<>>
            /\ AllBlockingFeedback(iterations[1]))
        => Len(plan_calls) >= 2
    /\ (iterations # <<>> /\ AllBlockingFeedback(iterations[1]))
        => /\ FeedbackKept(iterations[1])
           /\ HasBlocking(iterations[1].feedback)
    /\ (Finished /\ Len(iterations) = 2
            /\ AllBlockingFeedback(iterations[1])
            /\ AllOfType(iterations[2], "implementation")
            /\ \A j \in 1..Len(build_calls) : build_calls[j].passed)
        => Completed

C7_Witness ==
    /\ Completed
    /\ Len(iterations) = 2
    /\ Len(iterations[1].plan) = 2
    /\ AllBlockingFeedback(iterations[1])
    /\ AllOfType(iterations[2], "implementation")
    /\ PlanFilenames(iterations[2].plan) = PlanFilenames(iterations[1].plan)

\* C8: a plan-generation result that is not a plan ends the loop errored in
\* that round: the content returned is the plan generator's, no worker and
\* no build check ran in that round, and iterations holds the earlier rounds.
C8_NonPlanEndsErrored ==
    (plan_calls # <<>> /\ Last(plan_calls).result.type # "plan") =>
        /\ Errored
        /\ result.content = Last(plan_calls).result.content
        /\ Len(iterations) = Len(plan_calls) - 1
        /\ Len(worker_calls) = Len(plan_calls) - 1
        /\ \A j \in 1..Len(build_calls) : build_calls[j].round < Len(plan_calls) - 1

C8_Witness ==
    /\ Errored
    /\ Len(plan_calls) = 2
    /\ Last(plan_calls).result.type = "question"
    /\ Len(iterations) = 1

\* C9: the cumulative map is last-write-wins: the content it holds for a
\* filename is that of the latest round that implemented the filename.
ImplementedIn(it, f) ==
    \E i \in 1..Len(RawResults(it)) :
        /\ RawResults(it)[i].type = "implementation"
        /\ RawResults(it)[i].filename = f

LastContent(it, f) ==
    LET idx == {i \in 1..Len(RawResults(it)) :
                    /\ RawResults(it)[i].type = "implementation"
                    /\ RawResults(it)[i].filename = f}
    IN  RawResults(it)[CHOOSE i \in idx : \A j \in idx : j <= i].content

C9_LastWriteWins ==
    \A k \in 1..Len(iterations), f \in Filenames :
        (/\ ImplementedIn(iterations[k], f)
         /\ \A j \in (k + 1)..Len(iterations) : ~ImplementedIn(iterations[j], f))
        => /\ f \in DOMAIN implementation_map
           /\ implementation_map[f] = LastContent(iterations[k], f)

C9_Witness ==
    /\ Finished
    /\ Len(iterations) = 2
    /\ \E f \in Filenames :
        /\ ImplementedIn(iterations[1], f)
        /\ ImplementedIn(iterations[2], f)
        /\ LastContent(iterations[1], f) # LastContent(iterations[2], f)
        /\ implementation_map[f] = LastContent(iterations[2], f)

\* C10: the recorded worker results of a round have one entry per planned
\* file, entry i carrying the filename of plan.files[i], whatever the
\* outcome of each task.
C10_OneResultPerFile ==
    \A k \in 1..Len(iterations) :
        /\ Len(RawResults(iterations[k])) = Len(iterations[k].plan)
        /\ \A i \in 1..Len(RawResults(iterations[k])) :
            Get(RawResults(iterations[k])[i], "filename", <<>>)
                = iterations[k].plan[i].filename

\* the round of the current tasks has been aggregated
RoundAggregated == iterations # <<>> /\ Len(iterations) = Len(worker_calls)

TaskFailed(task) == task.result.type \in {"exception", "error"}

\* C11: a failed worker task is reported as an error attributed to its
\* file's filename, while every sibling task has its own result recorded
\* and, when an implementation, merged into the cumulative map.
C11_FailureIsolated ==
    RoundAggregated =>
        \A i \in 1..Len(tasks) :
            LET task == tasks[i]
                it == Last(iterations)
            IN  /\ TaskFailed(task) =>
                    \/ \E e \in 1..Len(RawErrors(it)) :
                            RawErrors(it)[e].filename = task.plan.filename
                    \/ \E x \in 1..Len(RawResults(it)) :
                            /\ RawResults(it)[x].type = "error"
                            /\ Get(RawResults(it)[x], "filename", <<>>) = task.plan.filename
                /\ ~TaskFailed(task) =>
                    /\ \E x \in 1..Len(RawResults(it)) : RawResults(it)[x] = task.result
                    /\ task.result.type = "implementation" =>
                            task.plan.filename \in DOMAIN implementation_map

\* C12: a round with a worker result that is an error (a raised exception
\* or an error return) has a blocking feedback item in its feedback list.
HasErrorResult(it) ==
    \/ RawErrors(it) # <<>>
    \/ \E x \in 1..Len(RawResults(it)) : RawResults(it)[x].type = "error"

C12_ErrorsBecomeBlockingFeedback ==
    \A k \in 1..Len(iterations) :
        HasErrorResult(iterations[k]) => HasBlocking(iterations[k].feedback)

\* C13: a round's feedback has a missing-output item for a planned filename
\* exactly when that filename produced neither an implementation nor a
\* feedback entry in the round.
Produced(it, f) ==
    \E x \in 1..Len(RawResults(it)) :
        /\ RawResults(it)[x].type \in {"implementation", "feedback"}
        /\ RawResults(it)[x].filename = f

IsMissingItem(item) == item.message = "Missing implementations for planned files"

Names(item, f) == \E i \in 1..Len(item.filename) : <<item.filename[i]>> = f

C13_MissingItemPerSilentFile ==
    \A k \in 1..Len(iterations) :
        \A f \in PlanFilenames(iterations[k].plan) :
            ~Produced(iterations[k], f)
                <=> \E j \in 1..Len(iterations[k].feedback) :
                        /\ IsMissingItem(iterations[k].feedback[j])
                        /\ iterations[k].feedback[j].blocking
                        /\ Names(iterations[k].feedback[j], f)

\* C14: the feedback list recorded for a round is ordered by the position
\* of each item's filename in the plan's file list, the items whose
\* filename is not in the plan coming last.
PlanPosition(files, filename) ==
    LET at == {i \in 1..Len(files) : files[i].filename = filename}
    IN  IF at = {} THEN Len(files) + 1
        ELSE CHOOSE i \in at : \A j \in at : i <= j

DistinctFilenames(files) ==
    \A i, j \in 1..Len(files) : files[i].filename = files[j].filename => i = j

InPlanOrder(items, files) ==
    \A i, j \in 1..Len(items) :
        i < j => PlanPosition(files, items[i].filename)
                    <= PlanPosition(files, items[j].filename)

C14_FeedbackInPlanOrder ==
    \A k \in 1..Len(iterations) :
        DistinctFilenames(iterations[k].plan)
            => InPlanOrder(iterations[k].feedback, iterations[k].plan)

\* C15: a failed build check adds exactly one blocking "build" item to its
\* round's feedback; the round does not return completed; the loop goes on
\* to the next round, or returns max_rounds_reached after the final one;
\* the failure itself never ends the loop errored.
BuildItems(it) == {j \in 1..Len(it.feedback) : it.feedback[j].filename = <<"build">>}

C15_BuildFailureIsFeedback ==
    \A c \in 1..Len(build_calls) :
        LET r == build_calls[c].round
            it == iterations[r + 1]
        IN  IF build_calls[c].passed
            THEN BuildItems(it) = {}
            ELSE /\ Cardinality(BuildItems(it)) = 1
                 /\ \A b \in BuildItems(it) : it.feedback[b].blocking
                 /\ ~(Completed /\ round_index = r)
                 /\ IF r + 1 < max_rounds
                    THEN /\ round_index >= r + 1
                         /\ Len(plan_calls) = r + 1 => pc = "plan"
                    ELSE MaxRoundsReached
                 /\ Errored => Len(plan_calls) > r + 1

C15_Witness ==
    /\ max_rounds = 2
    /\ Len(build_calls) = 2
    /\ ~build_calls[1].passed
    /\ ~build_calls[2].passed
    /\ MaxRoundsReached

\* C18: every plan-generation call of the invocation is made with the same
\* orchestrator session id, the one returned as orchestrator_session.
C18_OneOrchestratorSession ==
    \A c \in 1..Len(plan_calls) :
        /\ plan_calls[c].session_id = orch_session
        /\ plan_calls[c].result.session_id = orch_session

C18_Witness ==
    /\ Finished
    /\ Len(plan_calls) = 2
    /\ plan_calls[1].session_id = plan_calls[2].session_id
    /\ plan_calls[2].result.type = "plan"

\* C19: a filename keeps the worker session id it was first given, two
\* filenames never share an id, and junior_sessions maps every filename
\* planned so far to its id.
C19_WorkerSessionsStable ==
    /\ \A k \in 1..Len(iterations) : \A x \in 1..Len(RawResults(iterations[k])) :
        LET r == RawResults(iterations[k])[x] IN
        "filename" \in DOMAIN r =>
            /\ r.filename \in DOMAIN junior_session_map
            /\ r.session_id = junior_session_map[r.filename]
    /\ \A i \in 1..Len(tasks) :
        /\ tasks[i].plan.filename \in DOMAIN junior_session_map
        /\ tasks[i].sid = junior_session_map[tasks[i].plan.filename]
    /\ \A f, g \in DOMAIN junior_session_map :
        junior_session_map[f] = junior_session_map[g] => f = g
    /\ \A k \in 1..Len(iterations) :
        PlanFilenames(iterations[k].plan) \subseteq DOMAIN junior_session_map

C19_Witness ==
    /\ Finished
    /\ Len(iterations) = 2
    /\ Cardinality(DOMAIN junior_session_map) = 2
    /\ \E x \in 1..Len(RawResults(iterations[1])), y \in 1..Len(RawResults(iterations[2])) :
        LET r1 == RawResults(iterations[1])[x]
            r2 == RawResults(iterations[2])[y]
        IN  /\ "filename" \in DOMAIN r1 /\ "filename" \in DOMAIN r2
            /\ r1.filename = r2.filename
            /\ r1.session_id = r2.session_id

\* C20: process_chat, given a session id without recorded history and
\* answered with a well-formed plan, creates the session's history, returns
\* type plan and leaves the turn pair in the session.
C20_SuppliedSessionIsCreated ==
    (/\ plan_calls # <<>>
     /\ orchestrator_client
     /\ plan_calls[1].reply = "plan")
    => /\ plan_calls[1].result.type = "plan"
       /\ orch_session \in DOMAIN chat_sessions
       /\ Len(chat_sessions[orch_session]) >= 2

\* C21: every process_chat call that reaches the chat-completion capability
\* appends exactly one (user, assistant) turn pair to the session history,
\* whatever the outcome.
C21_TurnPairPerCall ==
    (orchestrator_client /\ orch_session = KnownSession) =>
        Len(chat_sessions[orch_session]) = 2 * Len(plan_calls)

\* the replies of the capability that carry text
NonEmptyReplies == {"text", "invalid_plan", "plan"}

\* C22 as stated: a non-empty reply is a Plan when its brace span parses and
\* validates, a Question when it has no brace span, and an Error when its
\* brace span fails to parse or validate.
C22_SpanFailureIsError ==
    \A c \in 1..Len(plan_calls) :
        (orchestrator_client /\ plan_calls[c].reply \in NonEmptyReplies) =>
            plan_calls[c].result.type =
                CASE plan_calls[c].reply = "plan" -> "plan"
                  [] plan_calls[c].reply = "text" -> "question"
                  [] plan_calls[c].reply = "invalid_plan" -> "error"

\* C22 amended: for a session with recorded history a non-empty reply is a
\* Plan when its brace span parses and validates and a Question otherwise,
\* brace span or not; for a supplied id without history it is an Error.
C22_SpanFailureIsQuestion ==
    \A c \in 1..Len(plan_calls) :
        (orchestrator_client /\ plan_calls[c].reply \in NonEmptyReplies) =>
            plan_calls[c].result.type =
                IF plan_calls[c].session_id \notin DOMAIN chat_sessions THEN "error"
                ELSE IF plan_calls[c].reply = "plan" THEN "plan"
                ELSE "question"

C22_Witness ==
    /\ Len(plan_calls) = 2
    /\ plan_calls[1].result.type = "plan"
    /\ plan_calls[2].reply = "invalid_plan"
    /\ plan_calls[2].result.type = "question"

\* the digest line of a feedback item: "- filename: message", the message
\* trimmed, with " (blocking)" iff the item is blocking
DigestLine(item) ==
    [filename |-> item.filename, message |-> Strip(item.message), blocking |-> item.blocking]

C25_MissingCredentialAborts ==
    (Finished /\ ~Raised /\ (~orchestrator_client \/ ~junior_client)) =>
        /\ Errored
        /\ iterations = <<>>
        /\ Len(worker_calls) <= 1

\* C28: during a round's fan-out each worker session key is used by exactly
\* one task: no two tasks of the round carry the same session id.
C28_OneTaskPerSessionKey ==
    pc = "workers" =>
        \A i, j \in 1..Len(tasks) : tasks[i].sid = tasks[j].sid => i = j

\* C29: every plan that process_chat returns as a validated plan has
\* pairwise distinct filenames.
C29_PlanFilenamesDistinct ==
    \A c \in 1..Len(plan_calls) :
        plan_calls[c].result.type = "plan" =>
            \A i, j \in 1..Len(plan_calls[c].result.content) :
                plan_calls[c].result.content[i].filename
                    = plan_calls[c].result.content[j].filename => i = j

\* the iterations list holds one entry per aggregated round, in round order,
\* each with the round's plan, its raw worker results and the feedback
\* derived from them
AuditTrailComplete ==
    /\ Len(iterations) = Len(worker_calls)
    /\ \A k \in 1..Len(iterations) :
        /\ iterations[k].plan = plan_calls[k].result.content
        /\ Len(RawResults(iterations[k])) + Len(RawErrors(iterations[k])) = worker_calls[k]
        /\ FeedbackKept(iterations[k])
        /\ \A e \in 1..Len(RawErrors(iterations[k])) :
            \E j \in 1..Len(iterations[k].feedback) :
                iterations[k].feedback[j].message = RawErrors(iterations[k])[e].error

\* C26: the result returned at every terminal status, errored included,
\* carries the complete iterations list, and the entry recorded for a round
\* is not changed by any later round.
C26_AuditTrail ==
    /\ []((Finished /\ ~Raised) => AuditTrailComplete)
    /\ [][\A k \in 1..Len(iterations) :
            k <= round_index => /\ k <= Len(iterations')
                                /\ iterations'[k] = iterations[k]]_vars

C26_Witness ==
    /\ Errored
    /\ Len(plan_calls) = 2
    /\ Len(iterations) = 1
    /\ Len(iterations[1].plan) = 2
    /\ BuildItems(iterations[1]) # {}

\* C27: rounds are synchronous: outside a round's fan-out no worker call is
\* in flight, so aggregation, the build check and the next plan call start
\* after every worker call of the round has returned; each aggregated round
\* holds one result per worker call; a round's worker calls start after the
\* earlier rounds were aggregated and build-checked.
C27_RoundsSynchronous ==
    /\ pc # "workers" => \A i \in 1..Len(tasks) : tasks[i].state = "done"
    /\ \A k \in 1..Len(iterations) :
        Len(RawResults(iterations[k])) + Len(RawErrors(iterations[k])) = worker_calls[k]
    /\ pc = "workers" =>
        /\ Len(worker_calls) = round_index + 1
        /\ Len(iterations) = round_index
        /\ \A c \in 1..Len(build_calls) : build_calls[c].round < round_index
    /\ \A c \in 1..Len(build_calls) : build_calls[c].round < Len(iterations)

C27_Witness ==
    /\ pc = "build"
    /\ round_index = 1
    /\ Len(tasks) = 2
    /\ Len(build_calls) = 1
    /\ tasks[1].plan.filename # tasks[2].plan.filename

\* C30: no execution ends with status soft_limit_reached: a round that is
\* non-blocking after aggregation, the final one included, has its build
\* check run.
C30_NoSoftLimit ==
    /\ (Finished /\ result.type = "feedback_loop") => result.status # "soft_limit_reached"
    /\ \A k \in 1..Len(iterations) :
        RoundWasClean(iterations[k]) =>
            \/ \E c \in 1..Len(build_calls) : build_calls[c].round = k - 1
            \/ pc = "build" /\ round_index = k - 1

C30_Witness ==
    /\ MaxRoundsReached
    /\ max_rounds = 2
    /\ Len(build_calls) = 2
    /\ build_calls[2] = [round |-> 1, passed |-> FALSE]
    /\ \E i \in 1..Len(iterations[2].feedback) : ~iterations[2].feedback[i].blocking

\* C33: the loop never returns completed in a round in which a planned
\* file's worker result was an error, stale content or not.
C33_NoCompletionOnError ==
    Completed => ~HasErrorResult(Last(iterations))

\* some ended task of the round implemented filename f with this content
ImplementedBy(ts, f, content) ==
    \E i \in 1..Len(ts) :
        /\ ts[i].state = "done"
        /\ ts[i].result.type = "implementation"
        /\ ts[i].result.filename = f
        /\ ts[i].result.content = content

\* C34: the content stored for a filename changes only in the aggregation
\* of a round in which a worker returned an Implementation for that
\* filename, to that Implementation's content; no step removes a key.
C34_OnlyImplementationsWrite ==
    [][/\ DOMAIN implementation_map \subseteq DOMAIN implementation_map'
       /\ \A f \in DOMAIN implementation_map' :
            Get(implementation_map, f, "absent") # implementation_map'[f]
                => /\ pc = "workers"
                   /\ ImplementedBy(tasks, f, implementation_map'[f])]_vars

C34_Witness ==
    /\ Len(iterations) = 2
    /\ \E f, g \in Filenames :
        /\ f # g
        /\ ImplementedIn(iterations[1], f)
        /\ ImplementedIn(iterations[1], g)
        /\ PlanFilenames(iterations[2].plan) = {f}
        /\ ~ImplementedIn(iterations[2], f)
        /\ implementation_map[f] = LastContent(iterations[1], f)
        /\ implementation_map[g] = LastContent(iterations[1], g)

\* C35: the build check runs at most once per round, after the round's
\* results were merged, and is given the whole cumulative map.
C35_BuildOverCumulativeMap ==
    /\ [](/\ \A c, d \in 1..Len(build_calls) :
                build_calls[c].round = build_calls[d].round => c = d
          /\ \A c \in 1..Len(build_calls) :
                /\ build_calls[c].round < Len(iterations)
                /\ \A f \in Filenames :
                    ImplementedIn(iterations[build_calls[c].round + 1], f)
                        => f \in DOMAIN implementation_map)
    /\ [][build_calls' # build_calls =>
            /\ build_run'[1].implementations = implementation_map
            /\ \A f \in Filenames :
                ImplementedIn(iterations[round_index + 1], f) =>
                    /\ f \in DOMAIN build_run'[1].implementations
                    /\ build_run'[1].implementations[f]
                            = LastContent(iterations[round_index + 1], f)]_vars

C35_Witness ==
    /\ Len(build_calls) = 2
    /\ build_calls[2].round = 1
    /\ \E f \in DOMAIN build_run[1].implementations :
        /\ f \notin PlanFilenames(plan)
        /\ ImplementedIn(iterations[1], f)

\* C36: the feedback stored in the iteration of a round that does not end
\* the loop is the list the next round's instructions are built from, the
\* missing-files item and the build-failure item included.
C36_StoredFeedbackIsDigestSource ==
    /\ \A k \in 1..Len(iterations) :
        /\ (\E f \in PlanFilenames(iterations[k].plan) : f \notin DOMAIN implementation_map)
            => \E j \in 1..Len(iterations[k].feedback) :
                    IsMissingItem(iterations[k].feedback[j])
        /\ (\E c \in 1..Len(build_calls) :
                build_calls[c].round = k - 1 /\ ~build_calls[c].passed)
            => BuildItems(iterations[k]) # {}
    /\ (pc = "plan" /\ round_index >= 1) =>
        /\ iterations[round_index].feedback = feedback_items
        /\ Len(current_instructions.lines) = Len(iterations[round_index].feedback)
        /\ \A i \in 1..Len(current_instructions.lines) :
            /\ current_instructions.lines[i].filename
                    = iterations[round_index].feedback[i].filename
            /\ current_instructions.lines[i].blocking
                    = iterations[round_index].feedback[i].blocking

C36_Witness ==
    /\ pc = "plan"
    /\ round_index = 1
    /\ Len(iterations[1].feedback) = 2
    /\ BuildItems(iterations[1]) = {2}
    /\ current_instructions.lines[2].filename = <<"build">>

\* C37: the keys of the implementations map are always keys of the
\* file-plan map, a build check started by the loop never ends with
\* "No plan info", and every stored content belongs to a filename of some
\* round's plan.
C37_ContentsHavePlans ==
    /\ DOMAIN implementation_map \subseteq DOMAIN file_plan_map
    /\ \A c \in 1..Len(build_calls) : build_run[1].log # "No plan info"
    /\ \A f \in DOMAIN implementation_map :
        \/ \E k \in 1..Len(iterations) : f \in PlanFilenames(iterations[k].plan)
        \/ f \in PlanFilenames(plan)

C37_Witness ==
    /\ Len(build_calls) = 2
    /\ Len(plan) = 1
    /\ Cardinality(DOMAIN implementation_map) = 2
    /\ Ran(build_run[1], "overlay")

\* C38 as stated: when the loop returns completed the implementations and
\* file_plans maps have the same key set.
C38_CompletedMapsSameKeys ==
    Completed => DOMAIN implementation_map = DOMAIN file_plan_map

\* C38 amended: when the loop returns completed every filename of the last
\* round's plan has content and every content has its plan metadata; a
\* filename planned in an earlier round only may have none.
C38_CompletedCoversLastPlan ==
    Completed =>
        /\ PlanFilenames(plan) \subseteq DOMAIN implementation_map
        /\ DOMAIN implementation_map \subseteq DOMAIN file_plan_map
        /\ \A k \in 1..Len(iterations) :
            PlanFilenames(iterations[k].plan) \subseteq DOMAIN file_plan_map

C38_Witness ==
    /\ Completed
    /\ Len(iterations) = 2
    /\ \E f \in DOMAIN file_plan_map :
        /\ f \notin DOMAIN implementation_map
        /\ f \in PlanFilenames(iterations[1].plan)

\* ---------------------------------------------------------------- properties of implement_component

\* the reply is text: the capability answered and the answer has content
HasText(reply) == reply.kind \in {"feedback", "code", "json", "json_array"}

\* the reply, fences removed, spells a JSON object whose type is "feedback"
SpellsFeedback(reply) ==
    \/ reply.kind = "feedback"
    \/ /\ reply.kind = "json"
       /\ "type" \in DOMAIN reply.payload
       /\ reply.payload.type = "feedback"

FeedbackPayload(reply) ==
    IF reply.kind = "feedback"
    THEN [type |-> "feedback", message |-> reply.message, blocking |-> reply.blocking]
    ELSE reply.payload

\* the reply with its enclosing fences removed
Unfenced(reply) == IF reply.kind = "code" THEN reply.body ELSE reply.text

\* C23: implement_component returns a Feedback result, with the planned
\* filename, the payload's message and its blocking flag (non-blocking when
\* absent), exactly when the reply without its fences is a JSON object of
\* type "feedback"; every other non-empty reply gives an Implementation for
\* the planned filename whose content is the reply without its fences.
C23_FeedbackOrImplementation ==
    (worker_run # <<>> /\ junior_client /\ HasText(worker_run[1].reply)) =>
        LET run == worker_run[1] IN
        IF SpellsFeedback(run.reply)
        THEN /\ run.result.type = "feedback"
             /\ run.result.filename = run.file_plan.filename
             /\ run.result.message = Get(FeedbackPayload(run.reply), "message", "")
             /\ run.result.blocking = Get(FeedbackPayload(run.reply), "blocking", FALSE)
        ELSE /\ run.result.type = "implementation"
             /\ run.result.filename = run.file_plan.filename
             /\ run.result.content = Unfenced(run.reply)

\* ---------------------------------------------------------------- properties of _run_build_check

\* C16: with the toolchain absent _run_build_check returns passed = true and
\* the skip diagnostic for every pair of maps, takes no external step and
\* leaves both maps as they were.
C16_AbsentToolchainSkips ==
    [][(build_run' # build_run /\ ~build_run'[1].env.npm) =>
            /\ build_run'[1].passed
            /\ build_run'[1].log = "npm not available; build check skipped"
            /\ build_run'[1].steps = <<>>
            /\ file_plan_map' = file_plan_map
            /\ implementation_map' = implementation_map]_vars

C16_Witness ==
    /\ pc = "build_checked"
    /\ ~build_run[1].env.npm
    /\ ~build_run[1].env.template
    /\ build_run[1].passed
    /\ \E f \in DOMAIN implementation_map : f \notin DOMAIN file_plan_map

\* C17: with the toolchain present, the install step runs before the build
\* step, the build step does not run after a failed install, the check
\* passes only if both steps exit zero, and a step exiting non-zero yields
\* passed = false with that step's captured output.
C17_InstallThenBuild ==
    (build_run # <<>> /\ build_run[1].env.npm) =>
        LET run == build_run[1] IN
        /\ Ran(run, "npm run build") =>
            \E i, j \in 1..Len(run.steps) :
                i < j /\ run.steps[i] = "npm install" /\ run.steps[j] = "npm run build"
        /\ (Ran(run, "npm install") /\ run.env.install # 0) =>
            /\ ~Ran(run, "npm run build")
            /\ ~run.passed
            /\ run.log = "install output"
        /\ (Ran(run, "npm run build") /\ run.env.build # 0) =>
            /\ ~run.passed
            /\ run.log = "build output"
        /\ run.passed =>
            /\ Ran(run, "npm install") /\ run.env.install = 0
            /\ Ran(run, "npm run build") /\ run.env.build = 0

C17_Witness ==
    /\ pc = "build_checked"
    /\ build_run[1].env.npm
    /\ build_run[1].env.install # 0
    /\ build_run[1].env.build = 0
    /\ Ran(build_run[1], "npm install")


\* ---------------------------------------------------------------- properties of implement_multiple_components

BatchReturned == pc = "batch_done"

\* the calls that ended in an error, in the order they were made
FailedCalls == SelectSeq(tasks, LAMBDA t : t.result.type = "error")

\* C31: implement_multiple_components implements the file plans one after
\* another in plan order on one shared session; the counts it returns
\* satisfy successful + failed = total_files = len(file_plans); every error
\* entry carries the filename of the file that failed; and when every reply
\* is a well-formed implementation, failed = 0 and successful = len(file_plans).
C31_BatchCountsAndOrder ==
    BatchReturned =>
        /\ Len(tasks) = Len(plan)
        /\ \A i \in 1..Len(plan) :
            /\ tasks[i].plan = plan[i]
            /\ tasks[i].sid = result.session_id
            /\ tasks[i].result.session_id = result.session_id
        /\ result.successful + result.failed = result.total_files
        /\ result.total_files = Len(plan)
        /\ result.failed = Len(FailedCalls)
        /\ result.errors = [i \in 1..Len(FailedCalls) |->
                               [filename |-> FailedCalls[i].plan.filename,
                                error |-> FailedCalls[i].result.content]]
        /\ (\A i \in 1..Len(batch.replies) : batch.replies[i].kind = "code") =>
               /\ result.failed = 0
               /\ result.successful = Len(plan)
               /\ \A i \in 1..Len(plan) :
                    /\ result.implementations[i].type = "implementation"
                    /\ result.implementations[i].filename = plan[i].filename

\* a batch of two different files returned with the first failed and the
\* second implemented
C31_Witness ==
    /\ BatchReturned
    /\ Len(plan) = 2
    /\ plan[1].filename # plan[2].filename
    /\ result.failed = 1
    /\ result.successful = 1
    /\ result.errors[1].filename = plan[1].filename
    /\ result.implementations[1].type = "implementation"

\* ---------------------------------------------------------------- properties of clean_code_output

HasFence(text) == \E i \in 1..Len(text) : text[i] = Fence

\* an opening fence line, with or without a language tag
OpeningLines == {<<Fence, Newline>>, <<Fence, "tsx", Newline>>}

\* a text made of an opening fence line, a body without fences and a
\* closing fence: the set of its possible bodies
EnclosedBodies(text) ==
    {body \in Texts :
        /\ ~HasFence(body)
        /\ \E open \in OpeningLines : text = open \o body \o <<Fence>>}

Trimmed(text) ==
    text = <<>> \/ (~IsSpace(text[1]) /\ ~IsSpace(text[Len(text)]))

Cleaned == pc \in {"cleaned", "cleaned_again"}

\* an enclosed body is returned, without the blank space around it
CleanReturnsBody ==
    Cleaned => \A body \in EnclosedBodies(cleaning.code) :
                   cleaning.returned[1] = StripText(body)

\* a text without fences is returned unchanged, but for the blank space
\* around it
CleanKeepsUnfenced ==
    (Cleaned /\ ~HasFence(cleaning.code)) =>
        cleaning.returned[1] = StripText(cleaning.code)

\* the returned text neither starts nor ends with a fence marker
CleanLeavesNoMarker ==
    Cleaned => LET out == cleaning.returned[1]
               IN  out = <<>> \/ (Head(out) # Fence /\ Last(out) # Fence)

\* cleaning the returned text changes nothing
CleanIsIdempotent ==
    pc = "cleaned_again" => cleaning.returned[2] = cleaning.returned[1]

\* C32: clean_code_output returns exactly the body of a text made of an
\* opening fence line (tagged or not), a body and a closing fence; it
\* returns a text without fences unchanged; what it returns never starts or
\* ends with a fence marker, and cleaning it again changes nothing.
C32_CleanRemovesEnclosingFence ==
    /\ CleanReturnsBody
    /\ CleanKeepsUnfenced
    /\ CleanLeavesNoMarker
    /\ CleanIsIdempotent


\* ---------------------------------------------------------------- properties of the worker sessions

\* a sequence of complete (user, assistant) pairs
CompletePairs(history) ==
    /\ Len(history) % 2 = 0
    /\ \A k \in 1..Len(history) :
        history[k].role = IF k % 2 = 1 THEN "user" ELSE "assistant"

History(sid) == Get(junior_sessions, sid, <<>>)

Owned(sid) == \E i \in 1..Len(tasks) : tasks[i].sid = sid

BetweenAppends(sid) ==
    \E i \in 1..Len(tasks) : tasks[i].sid = sid /\ tasks[i].state = "appended_user"

Yielded(t) == t.state = "done" /\ t.result.type \in {"implementation", "feedback"}

\* C39 as stated: when the filenames of the plan are pairwise distinct, every
\* worker session's history is at all times a sequence of complete
\* (user, assistant) pairs, under every interleaving of the worker threads.
C39_HistoriesAlwaysPaired ==
    DistinctFilenames(plan) =>
        \A sid \in DOMAIN junior_sessions : CompletePairs(junior_sessions[sid])

\* what a thread has made of its session's history
ThreadHistory(t) ==
    LET history == History(t.sid)
        n == Len(history)
    IN  IF t.state = "appended_user"
        THEN /\ n = Len(t.entry) + 1
             /\ SubSeq(history, 1, n - 1) = t.entry
             /\ history[n].role = "user"
        ELSE IF Yielded(t)
        THEN /\ n = Len(t.entry) + 2
             /\ SubSeq(history, 1, n - 2) = t.entry
             /\ history[n - 1].role = "user"
             /\ history[n].role = "assistant"
        ELSE history = t.entry

\* C39, amended: when the filenames of the plan are pairwise distinct, under
\* every interleaving of the worker threads every worker session's history
\* is a sequence of complete (user, assistant) pairs, except that while its
\* thread stands between its two appends it ends with one more user turn; a
\* call that yields Implementation or Feedback has appended exactly one pair
\* to its own session, a call that ends in Error has left its session's
\* history as it was, and no step changes a session of no thread.
C39_HistoriesPairedBetweenCalls ==
    /\ [](DistinctFilenames(plan) =>
            /\ \A sid \in DOMAIN junior_sessions :
                IF BetweenAppends(sid)
                THEN /\ CompletePairs(Front(junior_sessions[sid]))
                     /\ Last(junior_sessions[sid]).role = "user"
                ELSE CompletePairs(junior_sessions[sid])
            /\ \A i \in 1..Len(tasks) : ThreadHistory(tasks[i]))
    /\ [][DistinctFilenames(plan) =>
            \A sid \in DOMAIN junior_sessions :
                /\ sid \in DOMAIN junior_sessions'
                /\ ~Owned(sid) => junior_sessions'[sid] = junior_sessions[sid]]_vars

\* two threads on different files of a session-carrying plan: one has
\* returned an implementation, the other stands between its two appends
C39_Witness ==
    /\ pc = "fanout"
    /\ Len(plan) = 2
    /\ DistinctFilenames(plan)
    /\ \E i, j \in 1..2 :
        /\ Yielded(tasks[i])
        /\ tasks[i].entry # <<>>
        /\ tasks[j].state = "appended_user"
        /\ Len(History(tasks[j].sid)) = 1
====
